---- MODULE Spec2Model ----
(***************************************************************************)
(* Model of src/realtime.c: the Realtime portal, which forwards the three  *)
(* verbs MakeThreadRealtimeWithPID, MakeThreadHighPriorityWithPID and      *)
(* GetProperty to the RealtimeKit proxy and relays the asynchronous        *)
(* result to the D-Bus method invocation.                                  *)
(*                                                                         *)
(* One action per handler, continuation, constructor and finalizer.  A     *)
(* handler or continuation runs to completion on the single-threaded main  *)
(* loop, so each is one atomic step.                                       *)
(***************************************************************************)
EXTENDS Integers, Sequences, FiniteSets, TLC

(***************************************************************************)
(* Bounds.  TLC integers are 32 bits wide, so the C widths are scaled: a   *)
(* 32-bit C type is WordBits bits wide in the model and a 64-bit C type    *)
(* is 2 * WordBits bits wide.                                              *)
(***************************************************************************)
NumReq == 2
WordBits == 14

W32 == 2 ^ WordBits          \* number of values of guint32 / gint32 / pid_t
W31 == W32 \div 2            \* first value that does not fit gint32
W64 == W32 * W32             \* number of values of guint64 / gint64
W63 == W64 \div 2

Req == 1 .. NumReq

(***************************************************************************)
(* Integer conversions of C, as the compiler performs them.                *)
(***************************************************************************)
\* two's-complement reading of a 32-bit pattern
AsInt32(bits) == IF bits % W32 >= W31 THEN (bits % W32) - W32 ELSE bits % W32
\* two's-complement reading of a 64-bit pattern
AsInt64(bits) == IF bits % W64 >= W63 THEN (bits % W64) - W64 ELSE bits % W64
\* the 32-bit pattern of a 32-bit value
Bits32(v) == v % W32
\* the 64-bit pattern of a 64-bit value
Bits64(v) == v % W64

\* pid_t pids[1] = { process }: guint64 narrowed to the signed 32-bit pid_t
ToPidT(process) == AsInt32(process)

(***************************************************************************)
(* GError values.  A message is a sequence of text segments, so that       *)
(* g_prefix_error is a real concatenation.                                 *)
(***************************************************************************)
GErrorNew(domain, code, message) ==
    [domain |-> domain, code |-> code, message |-> message]

\* g_prefix_error (error, "Could not map pid: ")
MapPidPrefix == "Could not map pid: "
g_prefix_error(error, prefix) ==
    [error EXCEPT !.message = <<prefix>> \o @]

NoError == [domain |-> "none", code |-> "none", message |-> <<>>]

(***************************************************************************)
(* The variadic call g_variant_new ("(ttu)", pids[0], thread, priority).   *)
(* "t" makes g_variant_new read a guint64 with va_arg, but pids[0] is a    *)
(* pid_t (a 32-bit int), so the read is undefined behaviour: what it       *)
(* yields depends on how the build passes variadic arguments.              *)
(*   slots64  every variadic argument has a 64-bit slot (LP64 builds) and  *)
(*            the 32-bit int is found zero-extended in its slot            *)
(*   stack32  packed 32-bit stack slots (ILP32 builds): the 64-bit read    *)
(*            of the pid takes the low half of thread with it, every       *)
(*            later argument shifts by one slot and the last read is the   *)
(*            word that lies above the arguments                           *)
(* "u" reads a guint32, so a gint32 priority arrives as its bit pattern.   *)
(***************************************************************************)
ABIs == {"slots64", "stack32"}
\* a word the program did not write: no value of guint32
Indeterminate32 == W32
\* an uninitialized gint64: no value of gint64
Indeterminate64 == W63

VarArgsTTU(conv, a0, a1, a2) ==
    IF conv = "slots64"
      THEN [pid |-> Bits32(a0), tid |-> a1, priority |-> Bits32(a2)]
      ELSE [pid |-> Bits32(a0) + (a1 % W32) * W32,
            tid |-> (a1 \div W32) + Bits32(a2) * W32,
            priority |-> Indeterminate32]

(***************************************************************************)
(* Inputs of the handlers and answers of the collaborators.                *)
(***************************************************************************)
Verbs == {"MakeThreadRealtimeWithPID", "MakeThreadHighPriorityWithPID", "GetProperty"}
SetVerbs == {"MakeThreadRealtimeWithPID", "MakeThreadHighPriorityWithPID"}

\* guint64 process: a pid of the caller, and a value that does not fit pid_t
Processes == {42, W32 + 5}
\* guint64 thread
Threads == {7}
\* guint32 priority of MakeThreadRealtimeWithPID
RtPriorities == {10}
\* gint32 priority of MakeThreadHighPriorityWithPID
HpPriorities == {-3}
PropertyNames == {"MaxRealtimePriority", "MinNiceLevel"}

\* xdg_app_info_map_pids: TRUE with the host pid written to pids[0], or
\* FALSE with an error set
HostPids == {901}
MapError == GErrorNew("g-io-error", "FAILED", <<"Could not find requested pid">>)
MapOutcomes ==
    [ok : {TRUE}, pid : HostPids, error : {NoError}]
      \cup [ok : {FALSE}, pid : {0}, error : {MapError}]
NoMapping == [ok |-> TRUE, pid |-> 0, error |-> NoError]

\* g_dbus_proxy_call_finish: an error of the service or of the transport,
\* or a response
UpstreamErrors ==
    { GErrorNew("g-dbus-error", "ACCESS_DENIED", <<"Operation not permitted">>),
      GErrorNew("g-io-error", "CANCELLED", <<"Operation was cancelled">>) }

\* the variant inside the "(v)" response of Properties.Get: a type string
\* and the payload's bit pattern
Variants ==
    [type : {"x"}, bits : {W32 + 5, W64 - 5}]
      \cup [type : {"i"}, bits : {W32 - 5}]
      \cup [type : {"s"}, bits : {0}]
      \cup [type : {"b"}, bits : {1}]
NoVariant == [type |-> "none", bits |-> 0]

CallOutcomes ==
    [error : UpstreamErrors, child : {NoVariant}]
      \cup [error : {NoError}, child : {NoVariant}]
PropertyOutcomes ==
    [error : UpstreamErrors, child : {NoVariant}]
      \cup [error : {NoError}, child : Variants]
NoOutcome == [error |-> NoError, child |-> [type |-> "pending", bits |-> 0]]

(***************************************************************************)
(* State.                                                                  *)
(***************************************************************************)
VARIABLES
    abi,          \* how this build passes variadic arguments
    realtime,     \* static Realtime *realtime: "NULL", "object" or "finalized"
    rtkit_proxy,  \* realtime->rtkit_proxy: "NULL" or "proxy"
    created,      \* what realtime_create returned: "none" (not called), "NULL", "skeleton"
    inv,          \* inv[r]: the GDBusMethodInvocation r and its parameters
    refs,         \* refs[r]: reference count of invocation r
    path,         \* path[r]: the states request r has passed through
    events,       \* events[r]: the collaborators' operations invoked for r, in order
    mapping,      \* mapping[r]: what xdg_app_info_map_pids answered for r
    calls,        \* calls[r]: the g_dbus_proxy_call calls issued for r, in order
    outcome,      \* outcome[r]: what g_dbus_proxy_call_finish gave r's continuation
    signals       \* signals[r]: the completions delivered on invocation r, in order

vars == <<abi, realtime, rtkit_proxy, created, inv, refs, path, events, mapping,
          calls, outcome, signals>>

NoInvocation ==
    [state |-> "Idle", verb |-> "none", is_host |-> TRUE, process |-> 0,
     thread |-> 0, priority |-> 0, property_name |-> "none"]

Init ==
    /\ abi \in ABIs
    /\ realtime = "NULL"
    /\ rtkit_proxy = "NULL"
    /\ created = "none"
    /\ inv = [r \in Req |-> NoInvocation]
    /\ refs = [r \in Req |-> 0]
    /\ path = [r \in Req |-> <<>>]
    /\ events = [r \in Req |-> <<>>]
    /\ mapping = [r \in Req |-> NoMapping]
    /\ calls = [r \in Req |-> <<>>]
    /\ outcome = [r \in Req |-> NoOutcome]
    /\ signals = [r \in Req |-> <<>>]

(***************************************************************************)
(* What a handler or continuation does, as a record of effects:            *)
(*   events   the collaborators' operations it invokes, in program order   *)
(*   calls    the g_dbus_proxy_call calls it issues                        *)
(*   signals  the completions it delivers on the invocation                *)
(*   refs     the net change of the invocation's reference count           *)
(***************************************************************************)
Event(op, pid, text) == [op |-> op, pid |-> pid, text |-> text]

\* g_dbus_method_invocation_return_gerror (invocation, error)
ReturnGError(error) ==
    [kind |-> "gerror", error |-> error, type |-> "none", value |-> 0]
\* g_dbus_method_invocation_return_value (invocation, g_variant_new (type, value))
ReturnValue(type, value) ==
    [kind |-> "value", error |-> NoError, type |-> type, value |-> value]

\* g_dbus_proxy_call (proxy, method, parameters, ..., callback, user_data)
ProxyCall(proxy, method, signature, args, callback) ==
    [proxy |-> proxy, method |-> method, signature |-> signature,
     args |-> args, callback |-> callback]

\* map_pid_if_needed without the g_prefix_error call
map_pid_if_needed_no_prefix(is_host, pid, m) ==
    IF ~is_host /\ ~m.ok
      THEN [ok |-> FALSE, pid |-> pid, error |-> m.error,
            events |-> << Event("xdp_app_info_is_host", 0, <<>>),
                          Event("xdg_app_info_map_pids", pid, <<>>),
                          Event("g_warning", 0, <<"Realtime error: ">> \o m.error.message) >>]
      ELSE [ok |-> TRUE, pid |-> IF is_host THEN pid ELSE m.pid, error |-> NoError,
            events |-> IF is_host
                         THEN << Event("xdp_app_info_is_host", 0, <<>>) >>
                         ELSE << Event("xdp_app_info_is_host", 0, <<>>),
                                 Event("xdg_app_info_map_pids", pid, <<>>) >>]

\* map_pid_if_needed without the g_warning call
map_pid_if_needed_no_warning(is_host, pid, m) ==
    IF ~is_host /\ ~m.ok
      THEN [ok |-> FALSE, pid |-> pid, error |-> g_prefix_error(m.error, MapPidPrefix),
            events |-> << Event("xdp_app_info_is_host", 0, <<>>),
                          Event("xdg_app_info_map_pids", pid, <<>>) >>]
      ELSE [ok |-> TRUE, pid |-> IF is_host THEN pid ELSE m.pid, error |-> NoError,
            events |-> IF is_host
                         THEN << Event("xdp_app_info_is_host", 0, <<>>) >>
                         ELSE << Event("xdp_app_info_is_host", 0, <<>>),
                                 Event("xdg_app_info_map_pids", pid, <<>>) >>]

(***************************************************************************)
(* map_pid_if_needed: the resolver is asked for the mapping only for a     *)
(* caller that is not the host; m is what xdg_app_info_map_pids answers.   *)
(***************************************************************************)
map_pid_if_needed(is_host, pid, m) ==
    IF ~is_host
      THEN IF ~m.ok
             THEN LET error == g_prefix_error(m.error, MapPidPrefix)
                  IN  [ok |-> FALSE, pid |-> pid, error |-> error,
                       events |-> << Event("xdp_app_info_is_host", 0, <<>>),
                                     Event("xdg_app_info_map_pids", pid, <<>>),
                                     Event("g_warning", 0,
                                           <<"Realtime error: ">> \o error.message) >>]
             ELSE [ok |-> TRUE, pid |-> m.pid, error |-> NoError,
                   events |-> << Event("xdp_app_info_is_host", 0, <<>>),
                                 Event("xdg_app_info_map_pids", pid, <<>>) >>]
      ELSE [ok |-> TRUE, pid |-> pid, error |-> NoError,
            events |-> << Event("xdp_app_info_is_host", 0, <<>>) >>]

\* handle_make_thread_realtime_with_pid without the return in the mapping-failure
\* branch: the error is returned and the call is issued all the same
handle_make_thread_realtime_with_pid_body_no_return(i, m, proxy, conv) ==
    LET pids0 == ToPidT(i.process)
        mp    == map_pid_if_needed(i.is_host, pids0, m)
        fail  == IF mp.ok THEN <<>>
                 ELSE <<Event("g_dbus_method_invocation_return_gerror", 0, <<>>)>>
    IN  [events  |-> mp.events \o fail \o <<Event("g_dbus_proxy_call", 0, <<>>)>>,
         calls   |-> <<ProxyCall(proxy, "MakeThreadRealtimeWithPID", "(ttu)",
                                 VarArgsTTU(conv, mp.pid, i.thread, i.priority),
                                 "on_call_ready")>>,
         signals |-> IF mp.ok THEN <<>> ELSE <<ReturnGError(mp.error)>>,
         refs    |-> IF mp.ok THEN 1 ELSE 0]

(***************************************************************************)
(* handle_make_thread_realtime_with_pid, for the invocation i.             *)
(***************************************************************************)
handle_make_thread_realtime_with_pid_body(i, m, proxy, conv) ==
    LET pids0 == ToPidT(i.process)
        mp    == map_pid_if_needed(i.is_host, pids0, m)
    IN  IF ~mp.ok
          THEN [events  |-> mp.events \o
                              <<Event("g_dbus_method_invocation_return_gerror", 0, <<>>)>>,
                calls   |-> <<>>,
                signals |-> <<ReturnGError(mp.error)>>,
                refs    |-> -1]
          ELSE [events  |-> mp.events \o <<Event("g_dbus_proxy_call", 0, <<>>)>>,
                calls   |-> <<ProxyCall(proxy, "MakeThreadRealtimeWithPID", "(ttu)",
                                        VarArgsTTU(conv, mp.pid, i.thread, i.priority),
                                        "on_call_ready")>>,
                signals |-> <<>>,
                refs    |-> 1]

\* handle_make_thread_high_priority_with_pid calling a verb of its own name
handle_make_thread_high_priority_with_pid_body_own_verb(i, m, proxy, conv) ==
    LET pids0 == ToPidT(i.process)
        mp    == map_pid_if_needed(i.is_host, pids0, m)
    IN  IF ~mp.ok
          THEN [events  |-> mp.events \o
                              <<Event("g_dbus_method_invocation_return_gerror", 0, <<>>)>>,
                calls   |-> <<>>,
                signals |-> <<ReturnGError(mp.error)>>,
                refs    |-> -1]
          ELSE [events  |-> mp.events \o <<Event("g_dbus_proxy_call", 0, <<>>)>>,
                calls   |-> <<ProxyCall(proxy, "MakeThreadHighPriorityWithPID", "(ttu)",
                                        VarArgsTTU(conv, mp.pid, i.thread, i.priority),
                                        "on_call_ready")>>,
                signals |-> <<>>,
                refs    |-> 1]

(***************************************************************************)
(* handle_make_thread_high_priority_with_pid, for the invocation i.        *)
(***************************************************************************)
handle_make_thread_high_priority_with_pid_body(i, m, proxy, conv) ==
    LET pids0 == ToPidT(i.process)
        mp    == map_pid_if_needed(i.is_host, pids0, m)
    IN  IF ~mp.ok
          THEN [events  |-> mp.events \o
                              <<Event("g_dbus_method_invocation_return_gerror", 0, <<>>)>>,
                calls   |-> <<>>,
                signals |-> <<ReturnGError(mp.error)>>,
                refs    |-> -1]
          ELSE [events  |-> mp.events \o <<Event("g_dbus_proxy_call", 0, <<>>)>>,
                calls   |-> <<ProxyCall(proxy, "MakeThreadRealtimeWithPID", "(ttu)",
                                        VarArgsTTU(conv, mp.pid, i.thread, i.priority),
                                        "on_call_ready")>>,
                signals |-> <<>>,
                refs    |-> 1]

\* handle_get_property that waits for the answer (a synchronous call) and
\* returns the value before it returns
handle_get_property_body_sync(i, proxy) ==
    [events  |-> << Event("g_dbus_proxy_call", 0, <<>>),
                    Event("g_dbus_method_invocation_return_value", 0, <<>>) >>,
     calls   |-> <<ProxyCall(proxy, "org.freedesktop.DBus.Properties.Get", "(ss)",
                             <<"org.freedesktop.RealtimeKit1", i.property_name>>,
                             "on_get_property_ready")>>,
     signals |-> <<ReturnValue("(x)", 0)>>,
     refs    |-> -1]

\* handle_get_property passing the invocation without g_object_ref
handle_get_property_body_no_ref(i, proxy) ==
    [events  |-> <<Event("g_dbus_proxy_call", 0, <<>>)>>,
     calls   |-> <<ProxyCall(proxy, "org.freedesktop.DBus.Properties.Get", "(ss)",
                             <<"org.freedesktop.RealtimeKit1", i.property_name>>,
                             "on_get_property_ready")>>,
     signals |-> <<>>,
     refs    |-> 0]

\* handle_get_property with the two strings of "(ss)" in the wrong order
handle_get_property_body_swapped(i, proxy) ==
    [events  |-> <<Event("g_dbus_proxy_call", 0, <<>>)>>,
     calls   |-> <<ProxyCall(proxy, "org.freedesktop.DBus.Properties.Get", "(ss)",
                             <<i.property_name, "org.freedesktop.RealtimeKit1">>,
                             "on_get_property_ready")>>,
     signals |-> <<>>,
     refs    |-> 1]

(***************************************************************************)
(* handle_get_property, for the invocation i.                              *)
(***************************************************************************)
RtkitInterface == "org.freedesktop.RealtimeKit1"

handle_get_property_body(i, proxy) ==
    [events  |-> <<Event("g_dbus_proxy_call", 0, <<>>)>>,
     calls   |-> <<ProxyCall(proxy, "org.freedesktop.DBus.Properties.Get", "(ss)",
                             <<RtkitInterface, i.property_name>>,
                             "on_get_property_ready")>>,
     signals |-> <<>>,
     refs    |-> 1]

\* on_call_ready without the else: an error is returned and then a value
on_call_ready_body_no_else(o) ==
    IF o.error # NoError
      THEN [events  |-> << Event("g_dbus_method_invocation_return_gerror", 0, <<>>),
                           Event("g_dbus_method_invocation_return_value", 0, <<>>) >>,
            calls   |-> <<>>,
            signals |-> <<ReturnGError(o.error), ReturnValue("()", 0)>>,
            refs    |-> -3]
      ELSE [events  |-> <<Event("g_dbus_method_invocation_return_value", 0, <<>>)>>,
            calls   |-> <<>>,
            signals |-> <<ReturnValue("()", 0)>>,
            refs    |-> -2]

\* on_call_ready that issues the call again when it failed
on_call_ready_body_retry(o) ==
    IF o.error # NoError
      THEN [events  |-> <<Event("g_dbus_proxy_call", 0, <<>>)>>,
            calls   |-> <<ProxyCall("proxy", "MakeThreadRealtimeWithPID", "(ttu)",
                                    [pid |-> 0, tid |-> 0, priority |-> 0],
                                    "on_call_ready")>>,
            signals |-> <<>>,
            refs    |-> 0]
      ELSE [events  |-> <<Event("g_dbus_method_invocation_return_value", 0, <<>>)>>,
            calls   |-> <<>>,
            signals |-> <<ReturnValue("()", 0)>>,
            refs    |-> -2]

\* on_call_ready that never looks at error
on_call_ready_body_ignores_error(o) ==
    [events  |-> <<Event("g_dbus_method_invocation_return_value", 0, <<>>)>>,
     calls   |-> <<>>,
     signals |-> <<ReturnValue("()", 0)>>,
     refs    |-> -2]

(***************************************************************************)
(* on_call_ready: o is what g_dbus_proxy_call_finish gives.  Returning on  *)
(* the invocation takes one reference, the g_autoptr releases the one the  *)
(* handler took.                                                           *)
(***************************************************************************)
on_call_ready_body(o) ==
    IF o.error # NoError
      THEN [events  |-> <<Event("g_dbus_method_invocation_return_gerror", 0, <<>>)>>,
            calls   |-> <<>>,
            signals |-> <<ReturnGError(o.error)>>,
            refs    |-> -2]
      ELSE [events  |-> <<Event("g_dbus_method_invocation_return_value", 0, <<>>)>>,
            calls   |-> <<>>,
            signals |-> <<ReturnValue("()", 0)>>,
            refs    |-> -2]

(***************************************************************************)
(* on_get_property_ready.  The second test of error follows the source;    *)
(* ret is not assigned on that path.                                       *)
(***************************************************************************)
g_variant_is_of_type(child, type) == child.type = type
\* g_variant_get_int64 (child)
g_variant_get_int64(child) == AsInt64(child.bits)
\* the 32-bit payload read as unsigned
g_variant_get_int32_unsigned(child) == child.bits % W32
\* g_variant_get_int32 (child), assigned to the gint64 ret
g_variant_get_int32(child) == AsInt32(child.bits)

InvalidResponseError ==
    GErrorNew("xdg-desktop-portal-error-quark", "XDG_DESKTOP_PORTAL_ERROR_FAILED",
              <<"Invalid response type recieved">>)

\* on_get_property_ready whose unknown-type branch returns without completing
on_get_property_ready_body_silent(o) ==
    IF o.error # NoError
      THEN [events  |-> <<Event("g_dbus_method_invocation_return_gerror", 0, <<>>)>>,
            calls   |-> <<>>,
            signals |-> <<ReturnGError(o.error)>>,
            refs    |-> -2]
      ELSE IF o.child.type \in {"x", "i"}
        THEN [events  |-> <<Event("g_dbus_method_invocation_return_value", 0, <<>>)>>,
              calls   |-> <<>>,
              signals |-> <<ReturnValue("(x)", IF o.child.type = "x"
                                                 THEN AsInt64(o.child.bits)
                                                 ELSE AsInt32(o.child.bits))>>,
              refs    |-> -2]
        ELSE [events |-> <<>>, calls |-> <<>>, signals |-> <<>>, refs |-> -1]

on_get_property_ready_body(o) ==
    IF o.error # NoError
      THEN [events  |-> <<Event("g_dbus_method_invocation_return_gerror", 0, <<>>)>>,
            calls   |-> <<>>,
            signals |-> <<ReturnGError(o.error)>>,
            refs    |-> -2]
      ELSE IF o.error # NoError
        THEN [events  |-> << Event("g_warning", 0,
                                   <<"Realtime error getting property: ">> \o o.error.message),
                             Event("g_dbus_method_invocation_return_value", 0, <<>>) >>,
              calls   |-> <<>>,
              signals |-> <<ReturnValue("(x)", Indeterminate64)>>,
              refs    |-> -2]
        ELSE IF g_variant_is_of_type(o.child, "x")
          THEN [events  |-> <<Event("g_dbus_method_invocation_return_value", 0, <<>>)>>,
                calls   |-> <<>>,
                signals |-> <<ReturnValue("(x)", g_variant_get_int64(o.child))>>,
                refs    |-> -2]
          ELSE IF g_variant_is_of_type(o.child, "i")
            THEN [events  |-> <<Event("g_dbus_method_invocation_return_value", 0, <<>>)>>,
                  calls   |-> <<>>,
                  signals |-> <<ReturnValue("(x)", g_variant_get_int32(o.child))>>,
                  refs    |-> -2]
            ELSE [events  |-> <<Event("g_dbus_method_invocation_return_gerror", 0, <<>>)>>,
                  calls   |-> <<>>,
                  signals |-> <<ReturnGError(InvalidResponseError)>>,
                  refs    |-> -2]

(***************************************************************************)
(* The state of a request after a step, read off what the step did:        *)
(* completed once a completion was delivered, forwarded once an outbound   *)
(* call is in flight, dropped when the step returned with neither.         *)
(* MappingPending is passed through exactly when the resolver was asked    *)
(* for a mapping.                                                          *)
(***************************************************************************)
Invoked(evs, op) == \E k \in 1 .. Len(evs) : evs[k].op = op

StateAfter(state, eff) ==
    IF eff.signals # <<>> THEN "Completed"
    ELSE IF eff.calls # <<>> THEN "Forwarded"
    ELSE IF state = "Completed" THEN "Completed"
    ELSE "Dropped"

PathAfter(state, eff) ==
    (IF Invoked(eff.events, "xdg_app_info_map_pids") THEN <<"MappingPending">> ELSE <<>>)
      \o (IF StateAfter(state, eff) # state THEN <<StateAfter(state, eff)>> ELSE <<>>)

\* the effects land on one invocation kept for all requests (a static
\* pointer) instead of the one passed as user_data
Apply_shared(r, eff) ==
    /\ inv' = [inv EXCEPT ![r].state = StateAfter(@, eff)]
    /\ refs' = [refs EXCEPT ![r] = @ + eff.refs]
    /\ path' = [path EXCEPT ![r] = @ \o PathAfter(inv[r].state, eff)]
    /\ events' = [events EXCEPT ![r] = @ \o eff.events]
    /\ calls' = [calls EXCEPT ![r] = @ \o eff.calls]
    /\ signals' = [signals EXCEPT ![1] = @ \o eff.signals]

Apply(r, eff) ==
    /\ inv' = [inv EXCEPT ![r].state = StateAfter(@, eff)]
    /\ refs' = [refs EXCEPT ![r] = @ + eff.refs]
    /\ path' = [path EXCEPT ![r] = @ \o PathAfter(inv[r].state, eff)]
    /\ events' = [events EXCEPT ![r] = @ \o eff.events]
    /\ calls' = [calls EXCEPT ![r] = @ \o eff.calls]
    /\ signals' = [signals EXCEPT ![r] = @ \o eff.signals]

(***************************************************************************)
(* realtime_create: the system bus or the proxy may fail to come up.       *)
(***************************************************************************)
\* realtime_create without the test of rtkit_proxy
realtime_create_no_check(bus_ok, proxy_ok) ==
    /\ created = "none"
    /\ IF ~bus_ok
         THEN /\ created' = "NULL"
              /\ UNCHANGED <<realtime, rtkit_proxy>>
         ELSE /\ realtime' = "object"
              /\ rtkit_proxy' = (IF proxy_ok THEN "proxy" ELSE "NULL")
              /\ created' = "skeleton"
    /\ UNCHANGED <<abi, inv, refs, path, events, mapping, calls, outcome, signals>>

realtime_create(bus_ok, proxy_ok) ==
    /\ created = "none"
    /\ IF ~bus_ok
         THEN /\ created' = "NULL"
              /\ UNCHANGED <<realtime, rtkit_proxy>>
         ELSE IF ~proxy_ok
           THEN /\ created' = "NULL"
                /\ UNCHANGED <<realtime, rtkit_proxy>>
           ELSE /\ realtime' = "object"
                /\ rtkit_proxy' = "proxy"
                /\ created' = "skeleton"
    /\ UNCHANGED <<abi, inv, refs, path, events, mapping, calls, outcome, signals>>

(***************************************************************************)
(* realtime_finalize: runs when the last reference to the object goes;     *)
(* the dispatcher holds one while a method call waits for its handler.     *)
(***************************************************************************)
realtime_finalize ==
    /\ realtime = "object"
    /\ \A r \in Req : inv[r].state # "Received"
    /\ rtkit_proxy' = "NULL"
    /\ realtime' = "finalized"
    /\ UNCHANGED <<abi, created, inv, refs, path, events, mapping, calls, outcome, signals>>

(***************************************************************************)
(* The exported skeleton receives a method call: invocation r is created   *)
(* with one reference, owned by the handler it is about to be given to.    *)
(***************************************************************************)
Invocations ==
    [state : {"Received"}, verb : {"MakeThreadRealtimeWithPID"}, is_host : BOOLEAN,
     process : Processes, thread : Threads, priority : RtPriorities,
     property_name : {"none"}]
      \cup
    [state : {"Received"}, verb : {"MakeThreadHighPriorityWithPID"}, is_host : BOOLEAN,
     process : Processes, thread : Threads, priority : HpPriorities,
     property_name : {"none"}]
      \cup
    [state : {"Received"}, verb : {"GetProperty"}, is_host : BOOLEAN,
     process : {0}, thread : {0}, priority : {0},
     property_name : PropertyNames]

method_call(r, i) ==
    /\ created = "skeleton"
    /\ realtime = "object"
    /\ inv[r].state = "Idle"
    /\ \A q \in Req : q < r => inv[q].state # "Idle"
    /\ inv' = [inv EXCEPT ![r] = i]
    /\ refs' = [refs EXCEPT ![r] = 1]
    /\ path' = [path EXCEPT ![r] = <<"Received">>]
    /\ UNCHANGED <<abi, realtime, rtkit_proxy, created, events, mapping, calls, outcome, signals>>

(***************************************************************************)
(* The handlers and the continuations, one step each.  A continuation runs *)
(* once for a call in flight: one that was issued and has not been         *)
(* finished yet.                                                           *)
(***************************************************************************)
\* the resolver's answer, when the step asked for one
Answer(eff, m) ==
    IF Invoked(eff.events, "xdg_app_info_map_pids") THEN m ELSE NoMapping

InFlight(r) == calls[r] # <<>> /\ outcome[r] = NoOutcome

handle_make_thread_realtime_with_pid(r) ==
    /\ inv[r].state = "Received"
    /\ inv[r].verb = "MakeThreadRealtimeWithPID"
    /\ \E m \in MapOutcomes :
         LET eff == handle_make_thread_realtime_with_pid_body(inv[r], m, rtkit_proxy, abi)
         IN  /\ Apply(r, eff)
             /\ mapping' = [mapping EXCEPT ![r] = Answer(eff, m)]
    /\ UNCHANGED <<abi, realtime, rtkit_proxy, created, outcome>>

handle_make_thread_high_priority_with_pid(r) ==
    /\ inv[r].state = "Received"
    /\ inv[r].verb = "MakeThreadHighPriorityWithPID"
    /\ \E m \in MapOutcomes :
         LET eff == handle_make_thread_high_priority_with_pid_body(inv[r], m, rtkit_proxy,
                                                                   abi)
         IN  /\ Apply(r, eff)
             /\ mapping' = [mapping EXCEPT ![r] = Answer(eff, m)]
    /\ UNCHANGED <<abi, realtime, rtkit_proxy, created, outcome>>

handle_get_property(r) ==
    /\ inv[r].state = "Received"
    /\ inv[r].verb = "GetProperty"
    /\ Apply(r, handle_get_property_body(inv[r], rtkit_proxy))
    /\ UNCHANGED <<abi, realtime, rtkit_proxy, created, mapping, outcome>>

\* the callback registered with the call in flight for r
Callback(r) == calls[r][Len(calls[r])].callback

on_call_ready(r) ==
    /\ InFlight(r)
    /\ Callback(r) = "on_call_ready"
    /\ \E o \in CallOutcomes :
         /\ outcome' = [outcome EXCEPT ![r] = o]
         /\ Apply(r, on_call_ready_body(o))
    /\ UNCHANGED <<abi, realtime, rtkit_proxy, created, mapping>>

on_get_property_ready(r) ==
    /\ InFlight(r)
    /\ Callback(r) = "on_get_property_ready"
    /\ \E o \in PropertyOutcomes :
         /\ outcome' = [outcome EXCEPT ![r] = o]
         /\ Apply(r, on_get_property_ready_body(o))
    /\ UNCHANGED <<abi, realtime, rtkit_proxy, created, mapping>>

Handle(r) ==
    \/ handle_make_thread_realtime_with_pid(r)
    \/ handle_make_thread_high_priority_with_pid(r)
    \/ handle_get_property(r)

Continue(r) ==
    \/ on_call_ready(r)
    \/ on_get_property_ready(r)

Next ==
    \/ \E bus_ok \in BOOLEAN, proxy_ok \in BOOLEAN : realtime_create(bus_ok, proxy_ok)
    \/ realtime_finalize
    \/ \E r \in Req, i \in Invocations : method_call(r, i)
    \/ \E r \in Req : handle_make_thread_realtime_with_pid(r)
    \/ \E r \in Req : handle_make_thread_high_priority_with_pid(r)
    \/ \E r \in Req : handle_get_property(r)
    \/ \E r \in Req : on_call_ready(r)
    \/ \E r \in Req : on_get_property_ready(r)

Spec == Init /\ [][Next]_vars

\* The main loop runs every handler it was given and the proxy runs the
\* continuation of every call it was given.
FairSpec ==
    /\ Spec
    /\ \A r \in Req : WF_vars(Handle(r)) /\ WF_vars(Continue(r))

(***************************************************************************)
(* Properties.                                                             *)
(***************************************************************************)
IsSetRequest(r) == inv[r].verb \in SetVerbs
IsGetRequest(r) == inv[r].verb = "GetProperty"
\* the resolver was asked to map r's pid and answered
MappingFailed(r) == mapping[r] # NoMapping /\ ~mapping[r].ok
MappingSucceeded(r) == mapping[r] # NoMapping /\ mapping[r].ok
\* r's continuation has run
Finished(r) == outcome[r] # NoOutcome

\* C1: a request's completion sink is never invoked more than once: every
\* request has at most one completion signal, in every reachable state.
C1_AtMostOneCompletion ==
    \A r \in Req : Len(signals[r]) <= 1

\* a GetProperty request completed on the coercion-failure path, with one signal
C1_Witness ==
    \E r \in Req :
        /\ IsGetRequest(r)
        /\ Finished(r)
        /\ outcome[r].error = NoError
        /\ outcome[r].child.type = "s"
        /\ Len(signals[r]) = 1

\* C2: every received request is eventually completed, given that every
\* handler is run and every outbound call's continuation is invoked.
C2_EventuallyCompleted ==
    \A r \in Req : (inv[r].state = "Received") ~> (inv[r].state = "Completed")

\* every request was received and all of them are completed
C2_Witness ==
    \A r \in Req : inv[r].state = "Completed" /\ Len(signals[r]) = 1

\* C3: a set request of a sandboxed caller whose pid mapping fails issues no
\* outbound call and is completed with the mapping error, its message
\* prefixed with "Could not map pid: ".
C3_MappingFailure ==
    \A r \in Req :
        (IsSetRequest(r) /\ ~inv[r].is_host /\ MappingFailed(r)) =>
            /\ calls[r] = <<>>
            /\ Len(signals[r]) = 1
            /\ signals[r][1].kind = "gerror"
            /\ signals[r][1].error.domain = mapping[r].error.domain
            /\ signals[r][1].error.code = mapping[r].error.code
            /\ signals[r][1].error.message
                 = <<"Could not map pid: ">> \o mapping[r].error.message

\* a sandboxed caller's set request whose mapping failed, completed
C3_Witness ==
    \E r \in Req :
        /\ inv[r].verb = "MakeThreadHighPriorityWithPID"
        /\ ~inv[r].is_host
        /\ MappingFailed(r)
        /\ inv[r].state = "Completed"

\* C4: a set request of a host-resident caller never invokes the pid mapping,
\* and the process id of its outbound call is the caller's processId
\* unchanged, for every unsigned 64-bit processId.
C4_HostPidUnchanged ==
    \A r \in Req :
        (IsSetRequest(r) /\ inv[r].is_host) =>
            /\ ~Invoked(events[r], "xdg_app_info_map_pids")
            /\ \A k \in 1 .. Len(calls[r]) : calls[r][k].args.pid = inv[r].process

\* C5: a set request of a sandboxed caller whose mapping succeeds issues the
\* outbound call (mapped host pid, threadId unchanged, priority unchanged),
\* and completes with the empty success when the call succeeds.
C5_MappedPidForwarded ==
    \A r \in Req :
        (IsSetRequest(r) /\ ~inv[r].is_host /\ MappingSucceeded(r)) =>
            /\ Len(calls[r]) = 1
            /\ calls[r][1].args = [pid |-> mapping[r].pid,
                                   tid |-> inv[r].thread,
                                   priority |-> inv[r].priority]
            /\ (Finished(r) /\ outcome[r].error = NoError) =>
                   signals[r] = <<ReturnValue("()", 0)>>

\* C6: the request completes with the outcome of its outbound call: the
\* call's error verbatim for all three verbs, the empty success for a set
\* verb whose call succeeded.
C6_OutcomeRelayed ==
    \A r \in Req :
        Finished(r) =>
            /\ outcome[r].error # NoError =>
                   signals[r] = <<[kind |-> "gerror", error |-> outcome[r].error,
                                   type |-> "none", value |-> 0]>>
            /\ (outcome[r].error = NoError /\ IsSetRequest(r)) =>
                   signals[r] = <<[kind |-> "value", error |-> NoError,
                                   type |-> "()", value |-> 0]>>

\* a set request whose outbound call was cancelled, completed
C6_Witness ==
    \E r \in Req :
        /\ IsSetRequest(r)
        /\ Finished(r)
        /\ outcome[r].error.code = "CANCELLED"
        /\ inv[r].state = "Completed"

\* C7: GetProperty completes with the int64 payload unchanged, and with the
\* int32 payload sign-extended to 64 bits (int32 -5 gives int64 -5).
C7_PropertyCoerced ==
    \A r \in Req :
        (IsGetRequest(r) /\ Finished(r) /\ outcome[r].error = NoError) =>
            LET child == outcome[r].child
            IN  /\ child.type = "x" =>
                     /\ Len(signals[r]) = 1
                     /\ signals[r][1].kind = "value"
                     /\ signals[r][1].type = "(x)"
                     /\ signals[r][1].value
                          = (IF child.bits >= W63 THEN child.bits - W64 ELSE child.bits)
                /\ child.type = "i" =>
                     /\ Len(signals[r]) = 1
                     /\ signals[r][1].kind = "value"
                     /\ signals[r][1].type = "(x)"
                     /\ signals[r][1].value
                          = (IF child.bits >= W31 THEN child.bits - W32 ELSE child.bits)
                /\ child = [type |-> "i", bits |-> W32 - 5] => signals[r][1].value = -5
                /\ child = [type |-> "x", bits |-> W32 + 5] =>
                     signals[r][1].value = W32 + 5

\* one GetProperty answered with the int32 -5 and one answered with an int64
\* that does not fit 32 bits
C7_Witness ==
    \E r, q \in Req :
        /\ Finished(r) /\ outcome[r].child = [type |-> "i", bits |-> W32 - 5]
        /\ signals[r] # <<>>
        /\ Finished(q) /\ outcome[q].child = [type |-> "x", bits |-> W32 + 5]
        /\ signals[q] # <<>>

\* C8: GetProperty answered with a value that is neither int32 nor int64
\* completes with the generic failure whose message is
\* "Invalid response type received", and with no success value.
C8_InvalidResponseMessage ==
    \A r \in Req :
        (/\ IsGetRequest(r) /\ Finished(r) /\ outcome[r].error = NoError
         /\ outcome[r].child.type \notin {"x", "i"}) =>
            /\ Len(signals[r]) = 1
            /\ signals[r][1].kind = "gerror"
            /\ signals[r][1].error.code = "XDG_DESKTOP_PORTAL_ERROR_FAILED"
            /\ signals[r][1].error.message = <<"Invalid response type received">>

\* C9: GetProperty never asks the resolver anything and issues exactly one
\* outbound call, Properties.Get ("org.freedesktop.RealtimeKit1", name), with
\* the caller's property name.
C9_GetPropertyCall ==
    \A r \in Req :
        IsGetRequest(r) =>
            /\ ~Invoked(events[r], "xdp_app_info_is_host")
            /\ ~Invoked(events[r], "xdg_app_info_map_pids")
            /\ Len(calls[r]) <= 1
            /\ inv[r].state \in {"Forwarded", "Completed"} =>
                   /\ Len(calls[r]) = 1
                   /\ calls[r][1].method = "org.freedesktop.DBus.Properties.Get"
                   /\ calls[r][1].signature = "(ss)"
                   /\ calls[r][1].args
                        = <<"org.freedesktop.RealtimeKit1", inv[r].property_name>>

\* a sandboxed caller's GetProperty with its call in flight
C9_Witness ==
    \E r \in Req :
        /\ IsGetRequest(r)
        /\ ~inv[r].is_host
        /\ inv[r].property_name = "MinNiceLevel"
        /\ inv[r].state = "Forwarded"

\* C10: a request goes Received -> (MappingPending only for a sandboxed
\* caller of a set verb) -> Forwarded -> Completed; a failed mapping goes
\* from MappingPending to Completed; Forwarded is left only by the
\* continuation's step, to Completed; nothing changes once Completed.
IsPrefix(p, q) == Len(p) <= Len(q) /\ SubSeq(q, 1, Len(p)) = p

Lifecycles(i) ==
    IF i.verb \in SetVerbs /\ ~i.is_host
      THEN { <<"Received", "MappingPending", "Forwarded", "Completed">>,
             <<"Received", "MappingPending", "Completed">> }
      ELSE { <<"Received", "Forwarded", "Completed">> }

C10_Step(r) ==
    /\ inv'[r].state # "Idle" =>
           /\ \E q \in Lifecycles(inv'[r]) : IsPrefix(path'[r], q)
           /\ path'[r][Len(path'[r])] = inv'[r].state
    /\ (mapping'[r] # NoMapping /\ ~mapping'[r].ok) =>
           path'[r] = <<"Received", "MappingPending", "Completed">>
    /\ (inv[r].state = "Forwarded" /\ inv'[r].state # "Forwarded") =>
           /\ inv'[r].state = "Completed"
           /\ on_call_ready(r) \/ on_get_property_ready(r)
    /\ inv[r].state = "Completed" =>
           /\ inv'[r] = inv[r]
           /\ path'[r] = path[r]
           /\ signals'[r] = signals[r]
           /\ calls'[r] = calls[r]
           /\ events'[r] = events[r]

C10_Lifecycle == [][\A r \in Req : C10_Step(r)]_vars

\* a request that went through all four states
C10_Witness ==
    \E r \in Req :
        path[r] = <<"Received", "MappingPending", "Forwarded", "Completed">>

\* number of times op was invoked among evs
RECURSIVE Count(_, _)
Count(evs, op) ==
    IF evs = <<>> THEN 0
    ELSE (IF Head(evs).op = op THEN 1 ELSE 0) + Count(Tail(evs), op)

\* C11: no retries: a request issues at most one outbound call over its
\* lifetime, exactly one once forwarded and none when its mapping failed,
\* and at most one mapping attempt; a failed request has no further call.
C11_NoRetries ==
    \A r \in Req :
        /\ Len(calls[r]) <= 1
        /\ Count(events[r], "g_dbus_proxy_call") = Len(calls[r])
        /\ Count(events[r], "xdg_app_info_map_pids") <= 1
        /\ (inv[r].state = "Forwarded" \/ Finished(r)) => Len(calls[r]) = 1
        /\ MappingFailed(r) => calls[r] = <<>>
        /\ (inv[r].state = "Completed" /\ signals[r][1].kind = "gerror") =>
               ~InFlight(r)

\* a request whose outbound call failed, completed with the error and with
\* that one call only
C11_Witness ==
    \E r \in Req :
        /\ Finished(r)
        /\ outcome[r].error.code = "ACCESS_DENIED"
        /\ inv[r].state = "Completed"
        /\ Len(calls[r]) = 1

\* C12: with several requests in flight, a step of one request changes
\* nothing of any other request, and a request is completed by the
\* continuation of the call its own handler issued, with that call's outcome.
Changed(r) ==
    \/ inv'[r] # inv[r]
    \/ refs'[r] # refs[r]
    \/ path'[r] # path[r]
    \/ events'[r] # events[r]
    \/ mapping'[r] # mapping[r]
    \/ calls'[r] # calls[r]
    \/ outcome'[r] # outcome[r]
    \/ signals'[r] # signals[r]

C12_Step(r) ==
    /\ Changed(r) => \A q \in Req \ {r} : ~Changed(q)
    /\ outcome'[r] # outcome[r] =>
           /\ InFlight(r)
           /\ calls'[r] = calls[r]
           /\ Callback(r) = (IF IsGetRequest(r) THEN "on_get_property_ready"
                             ELSE "on_call_ready")
           /\ signals[r] = <<>>
           /\ Len(signals'[r]) = 1
           /\ outcome'[r].error # NoError =>
                  signals'[r][1] = [kind |-> "gerror", error |-> outcome'[r].error,
                                    type |-> "none", value |-> 0]
           /\ (outcome'[r].error = NoError /\ IsSetRequest(r)) =>
                  signals'[r][1] = [kind |-> "value", error |-> NoError,
                                    type |-> "()", value |-> 0]
           /\ (outcome'[r].error = NoError /\ outcome'[r].child.type \in {"x", "i"}) =>
                  signals'[r][1].kind = "value"
    /\ (signals'[r] # signals[r] /\ calls[r] # <<>>) => outcome'[r] # outcome[r]

C12_Independent == [][\A r \in Req : C12_Step(r)]_vars

\* the later request was completed by its continuation while the earlier
\* one's call is still in flight
C12_Witness ==
    \E r, q \in Req :
        /\ r < q
        /\ inv[r].state = "Forwarded"
        /\ InFlight(r)
        /\ Finished(q)
        /\ inv[q].state = "Completed"

\* the handler has run for r
Handled(r) == inv[r].state \notin {"Idle", "Received"}
\* the states r passed through up to the return of its handler
HandlerPath(r) == SubSeq(path[r], 1, IF mapping[r] # NoMapping THEN 3 ELSE 2)

\* C13: SetThreadHighPriority calls no verb but MakeThreadRealtimeWithPID,
\* and for the same caller kind, processId, threadId and mapping answer it
\* takes the same branch as SetThreadRealtime and calls the same verb.
C13_SameVerb ==
    /\ \A r \in Req :
           inv[r].verb = "MakeThreadHighPriorityWithPID" =>
               \A k \in 1 .. Len(calls[r]) :
                   calls[r][k].method = "MakeThreadRealtimeWithPID"
    /\ \A r, q \in Req :
           (/\ inv[r].verb = "MakeThreadRealtimeWithPID"
            /\ inv[q].verb = "MakeThreadHighPriorityWithPID"
            /\ Handled(r) /\ Handled(q)
            /\ inv[r].is_host = inv[q].is_host
            /\ inv[r].process = inv[q].process
            /\ inv[r].thread = inv[q].thread
            /\ mapping[r] = mapping[q]) =>
               /\ HandlerPath(r) = HandlerPath(q)
               /\ (calls[r] = <<>>) <=> (calls[q] = <<>>)
               /\ calls[r] # <<>> =>
                      /\ calls[r][1].method = calls[q][1].method
                      /\ calls[r][1].signature = calls[q][1].signature
                      /\ calls[r][1].args.pid = calls[q][1].args.pid
                      /\ calls[r][1].callback = calls[q][1].callback

\* a SetThreadRealtime and a SetThreadHighPriority of sandboxed callers with
\* the same pid, both mapped and forwarded
C13_Witness ==
    \E r, q \in Req :
        /\ inv[r].verb = "MakeThreadRealtimeWithPID"
        /\ inv[q].verb = "MakeThreadHighPriorityWithPID"
        /\ ~inv[r].is_host /\ ~inv[q].is_host
        /\ inv[r].process = inv[q].process
        /\ MappingSucceeded(r) /\ MappingSucceeded(q)
        /\ calls[r] # <<>> /\ calls[q] # <<>>

\* C14: the outbound call of SetThreadHighPriority carries the priority as a
\* signed 32-bit value equal to the caller's priority, negative ones
\* included: the argument tuple is (uint64, uint64, int32).
C14_SignedPriority ==
    \A r \in Req :
        inv[r].verb = "MakeThreadHighPriorityWithPID" =>
            \A k \in 1 .. Len(calls[r]) :
                /\ calls[r][k].signature = "(tti)"
                /\ calls[r][k].args.priority = inv[r].priority

\* C15: a handler that forwards returns with the request uncompleted and its
\* call in flight; the completion comes in a later step, the continuation's;
\* only the mapping-failure branch completes a request in the handler's step.
C15_Step(r) ==
    /\ (inv[r].state = "Received" /\ calls'[r] # calls[r]) =>
           /\ inv'[r].state = "Forwarded"
           /\ signals'[r] = <<>>
           /\ outcome'[r] = NoOutcome
    /\ (inv[r].state = "Received" /\ signals'[r] # signals[r]) =>
           /\ mapping'[r] # NoMapping /\ ~mapping'[r].ok
           /\ calls'[r] = <<>>
    /\ (inv[r].state # "Received" /\ signals'[r] # signals[r]) =>
           /\ inv[r].state = "Forwarded"
           /\ calls'[r] = calls[r]
           /\ on_call_ready(r) \/ on_get_property_ready(r)

C15_NeverBlocks == [][\A r \in Req : C15_Step(r)]_vars

\* a host caller's set request whose handler returned: call in flight, no
\* completion yet
C15_Witness ==
    \E r \in Req :
        /\ IsSetRequest(r)
        /\ inv[r].is_host
        /\ inv[r].state = "Forwarded"
        /\ InFlight(r)
        /\ signals[r] = <<>>

\* C16: when GetProperty is answered with a value that is neither int32 nor
\* int64, a log entry is emitted besides the error completion.
C16_InvalidTypeLogged ==
    \A r \in Req :
        (/\ IsGetRequest(r) /\ Finished(r) /\ outcome[r].error = NoError
         /\ outcome[r].child.type \notin {"x", "i"}) =>
            /\ Len(signals[r]) = 1
            /\ signals[r][1].kind = "gerror"
            /\ Invoked(events[r], "g_warning")

\* position of the first invocation of op among evs, 0 when there is none
First(evs, op) ==
    IF Invoked(evs, op)
      THEN CHOOSE k \in 1 .. Len(evs) :
               /\ evs[k].op = op
               /\ \A j \in 1 .. (k - 1) : evs[j].op # op
      ELSE 0

\* C17: a failed mapping is logged as a warning carrying the prefixed message
\* before the completion is delivered; a failed outbound call of any verb is
\* relayed without a log entry.
C17_Logging ==
    \A r \in Req :
        /\ MappingFailed(r) =>
               LET w == First(events[r], "g_warning")
                   c == First(events[r], "g_dbus_method_invocation_return_gerror")
               IN  /\ w > 0
                   /\ c > w
                   /\ events[r][w].text
                        = <<"Realtime error: ", "Could not map pid: ">>
                            \o mapping[r].error.message
                   /\ Count(events[r], "g_warning") = 1
        /\ (Finished(r) /\ outcome[r].error # NoError) =>
               /\ ~Invoked(events[r], "g_warning")
               /\ Invoked(events[r], "g_dbus_method_invocation_return_gerror")

\* one request whose mapping failed and one GetProperty whose outbound call
\* failed, both completed
C17_Witness ==
    \E r, q \in Req :
        /\ MappingFailed(r)
        /\ inv[r].state = "Completed"
        /\ IsGetRequest(q)
        /\ Finished(q)
        /\ outcome[q].error # NoError

\* C18: for every processId in 0 .. 2^31 - 1 the value handed to the pid
\* mapping (sandboxed caller) or to the outbound call (host caller) is the
\* processId exactly: the narrowing to pid_t changes nothing in that range
\* and nothing else touches the process id.
C18_NarrowingExact ==
    \A r \in Req :
        (IsSetRequest(r) /\ inv[r].process < W31) =>
            /\ \A k \in 1 .. Len(events[r]) :
                   events[r][k].op = "xdg_app_info_map_pids" =>
                       events[r][k].pid = inv[r].process
            /\ inv[r].is_host =>
                   \A k \in 1 .. Len(calls[r]) : calls[r][k].args.pid = inv[r].process

\* C19: realtime_create returns NULL and creates no instance when the bus or
\* the proxy fails; on success the proxy handle is set when the object is
\* returned, and it stays the same non-null handle through every handler and
\* continuation until realtime_finalize clears it; every outbound call goes
\* through that handle.
C19_Step ==
    /\ created' = "NULL" =>
           /\ realtime' = "NULL"
           /\ rtkit_proxy' = "NULL"
           /\ \A r \in Req : inv'[r].state = "Idle"
    /\ (created' = "skeleton" /\ realtime' = "object") => rtkit_proxy' = "proxy"
    /\ rtkit_proxy' # rtkit_proxy =>
           \/ /\ created = "none" /\ created' = "skeleton"
              /\ rtkit_proxy = "NULL" /\ rtkit_proxy' = "proxy"
           \/ /\ realtime = "object" /\ realtime' = "finalized"
              /\ rtkit_proxy' = "NULL"
    /\ \A r \in Req :
           calls'[r] # calls[r] =>
               /\ rtkit_proxy = "proxy"
               /\ rtkit_proxy' = rtkit_proxy
               /\ \A k \in 1 .. Len(calls'[r]) : calls'[r][k].proxy = "proxy"

C19_ValidHandle == [][C19_Step]_vars

\* the object was finalized after a request went out through the handle
C19_Witness ==
    /\ realtime = "finalized"
    /\ rtkit_proxy = "NULL"
    /\ \E r \in Req : calls[r] # <<>> /\ calls[r][1].proxy = "proxy"

\* C20: the invocation's reference count is at least 1 until its completion
\* is delivered, 2 while an outbound call is in flight (the handler's extra
\* reference), never negative, and 0 once the request is completed, on
\* every branch.
C20_ReferenceBalance ==
    \A r \in Req :
        /\ refs[r] >= 0
        /\ inv[r].state = "Idle" => refs[r] = 0
        /\ inv[r].state = "Received" => refs[r] = 1
        /\ inv[r].state = "Forwarded" => refs[r] = 2
        /\ signals[r] = <<>> /\ inv[r].state # "Idle" => refs[r] >= 1
        /\ inv[r].state = "Completed" => refs[r] = 0

\* requests completed on the mapping-failure branch and on the coercion-
\* failure branch, with no reference left
C20_Witness ==
    \E r, q \in Req :
        /\ MappingFailed(r)
        /\ inv[r].state = "Completed"
        /\ refs[r] = 0
        /\ Finished(q)
        /\ outcome[q].child.type = "b"
        /\ refs[q] = 0

====
